---- MODULE Spec2Model ----
(***************************************************************************)
(* Model of the PDF upload page (src/pages/upload.py): the file-list       *)
(* validation, the batch coordinator _process_files /                      *)
(* _process_multiple_pdfs with its ThreadPoolExecutor(max_workers=3), and  *)
(* the single-file task process_single_file, step by step.                 *)
(*                                                                         *)
(* Python values are modelled as follows.                                  *)
(*   - An uploaded file is a record [name, size, content].  content stands *)
(*     for the bytes: "notpdf" makes PyPDFLoader raise, "pdf1"/"pdf2" are   *)
(*     valid PDFs that split into 1 / 2 fragments.                         *)
(*   - A list of file objects is a sequence of positions in uploaded_files *)
(*     (object identity: two uploads may be equal field by field).         *)
(*   - A dict with a missing key is a record whose field is Absent.        *)
(*   - Strings built by f-strings are sequences of tokens, so that         *)
(*     concatenation is \o.                                                *)
(*   - datetime.now() / time.time() values are not modelled; a result that *)
(*     carries a processing_time has the field "elapsed".                  *)
(***************************************************************************)
EXTENDS Integers, Sequences, FiniteSets, Bags, TLC

(* ---- bounds of the model ---- *)
MaxFiles == 4
MaxFaults == 1
MaxRepeatFiles == 2
MaxBatches == 2

(* ---- program constants ---- *)
MAX_FILE_SIZE == 50 * 1024 * 1024
max_workers == 3

Absent == "<absent>"
None == "<None>"
NoHandle == [scope |-> "none", owner |-> <<>>]
NoName == <<>>
NoResult == [file |-> Absent, status |-> "none", error |-> Absent,
             chunks |-> 0, processing_time |-> Absent]
NoDisplay == [successful |-> 0, total_chunks |-> 0, failed |-> 0]

TargetPersonal == "Personal index"
TargetShared == "Shared index"
Targets == {TargetPersonal, TargetShared}

Usernames == {<<"alice">>, <<"bob">>}

(* The files a user can drop: a PDF exactly at the size limit, an          *)
(* oversized PDF of the same name, and a small file that is no PDF.  The   *)
(* same file may be dropped several times.                                 *)
FileKinds ==
    {[name |-> "a.pdf", size |-> MAX_FILE_SIZE, content |-> "pdf2"],
     [name |-> "a.pdf", size |-> MAX_FILE_SIZE + 1, content |-> "pdf1"],
     [name |-> "b.pdf", size |-> 2048, content |-> "notpdf"]}

(* PyPDFLoader(...).load_and_split() followed by split_documents: the      *)
(* number of fragments is a function of the bytes alone.                   *)
NumSplits(content) == IF content = "pdf1" THEN 1 ELSE 2

VARIABLES
    username,        \* st.session_state.username
    uploaded_files,  \* what st.file_uploader returned
    target_index,    \* what st.radio returned
    shown_valid,     \* _display_file_list: valid_files
    shown_invalid,   \* _display_file_list: invalid_files
    cpc,             \* position of the script thread
    batch_errors,    \* st.error messages of _process_files
    gv_calls,        \* calls of index_manager.get_vectorstore
    valid_files,     \* _process_files: valid_files
    vectorstore,     \* _process_files: vectorstore
    index_name,      \* _process_files: index_name
    tasks,           \* one future / process_single_file invocation per valid file
    completed,       \* _process_multiple_pdfs: completed
    yielded,         \* futures as_completed has yielded, in order
    results,         \* _process_multiple_pdfs: results
    displayed,       \* what _display_results reported
    store,           \* fragments held by the vector stores
    registry,        \* records held by the Document Registry
    faults,          \* environment faults injected so far
    batch,           \* number of the current script run
    progress_bar,    \* value shown by st.progress
    session          \* st.session_state of the sidebar: index and page

vars == <<username, uploaded_files, target_index, shown_valid, shown_invalid,
          cpc, batch_errors, gv_calls, valid_files, vectorstore, index_name,
          tasks, completed, yielded, results, displayed, store, registry,
          faults, batch, progress_bar, session>>

uiVars == <<uploaded_files, target_index, shown_valid, shown_invalid>>
coordVars == <<cpc, batch_errors, gv_calls, valid_files, vectorstore,
               index_name, completed, yielded, results, displayed,
               progress_bar>>

(* ---- helpers ---- *)
Range(s) == {s[i] : i \in DOMAIN s}

RECURSIVE FilterIdx(_, _, _)
(* [i for i in from..Len(files) if keep(files[i])], as positions *)
FilterIdx(files, from, oversize) ==
    IF from > Len(files) THEN <<>>
    ELSE IF (files[from].size > MAX_FILE_SIZE) = oversize
         THEN <<from>> \o FilterIdx(files, from + 1, oversize)
         ELSE FilterIdx(files, from + 1, oversize)

(* _display_file_list: the files appended to valid_files / invalid_files *)
DisplayValid(files) == FilterIdx(files, 1, FALSE)
DisplayInvalid(files) == FilterIdx(files, 1, TRUE)

RECURSIVE SizeFilterStrict(_, _)
(* variant: the limit itself is rejected *)
SizeFilterStrict(files, from) ==
    IF from > Len(files) THEN <<>>
    ELSE IF files[from].size < MAX_FILE_SIZE
         THEN <<from>> \o SizeFilterStrict(files, from + 1)
         ELSE SizeFilterStrict(files, from + 1)

RECURSIVE SizeFilter(_, _)
(* _process_files: [f for f in uploaded_files if f.size <= MAX_FILE_SIZE] *)
SizeFilter(files, from) ==
    IF from > Len(files) THEN <<>>
    ELSE IF files[from].size <= MAX_FILE_SIZE
         THEN <<from>> \o SizeFilter(files, from + 1)
         ELSE SizeFilter(files, from + 1)

(* f"pdf-qa-personal-{username}" and "pdf-qa-shared", cut at the hyphens *)
PersonalIndexName(user) == <<"pdf", "-", "qa", "-", "personal", "-">> \o user
SharedIndexName == <<"pdf", "-", "qa", "-", "shared">>

(* index_manager.get_vectorstore(scope, owner): the handle is keyed by its *)
(* arguments                                                               *)
GetVectorstore(scope, owner) == [scope |-> scope, owner |-> owner]

ResolveVectorstore(target, user) ==
    IF target = TargetPersonal
    THEN GetVectorstore("personal", user)
    ELSE GetVectorstore("shared", <<>>)

(* variant: the name of the personal index whatever the target *)
ResolveIndexNamePersonal(target, user) == PersonalIndexName(user)

ResolveIndexName(target, user) ==
    IF target = TargetPersonal
    THEN PersonalIndexName(user)
    ELSE SharedIndexName

NewTask == [pc |-> "queued", tmp |-> "none", bound |-> FALSE, splits |-> 0,
            exc |-> None, result |-> NoResult, raised |-> None,
            written |-> 0, add_calls |-> 0, appended |-> 0]

TaskIds == DOMAIN tasks
ValidContent(f) == f.content # "notpdf"
FileOf(i) == uploaded_files[valid_files[i]]
Running == {i \in TaskIds : tasks[i].pc \notin {"queued", "done"}}
Queued == {i \in TaskIds : tasks[i].pc = "queued"}

(* variant: a thread per work item *)
WorkerAvailableUnbounded == TRUE

(* ThreadPoolExecutor(max_workers=3): a work item starts only on an idle   *)
(* worker thread                                                           *)
WorkerAvailable == Cardinality(Running) < max_workers

(* variant: a worker thread exits after its first work item *)
NextQueuedNoReuse(i) ==
    i \in {j \in TaskIds : tasks[j].pc = "queued"} /\ i <= max_workers

(* the work queue of the pool is first in, first out *)
NextQueued(i) == i \in Queued /\ \A j \in Queued : i <= j

(* as_completed yields every future once, after it finished *)
Completed(i) == i \in TaskIds /\ tasks[i].pc = "done" /\ i \notin Range(yielded)

NoProgress == [num |-> 0, den |-> 0]

(* completed / total_files, kept as the pair of its operands *)
Progress(c, total) == [num |-> c, den |-> total]

(* the session of a user who is on the upload page and has not touched the *)
(* sidebar                                                                 *)
UploadSession ==
    [current_index |-> <<>>, index_selector |-> "unset",
     selector_default |-> "unset", current_page |-> "upload",
     pending |-> FALSE, reruns |-> 0, shown_sidebar |-> "none",
     shown_upload |-> "none", preselected |-> "none"]

InitSession(users, sessions) ==
    /\ username \in users
    /\ session \in sessions
    /\ progress_bar = NoProgress
    /\ uploaded_files = <<>>
    /\ target_index = TargetPersonal
    /\ shown_valid = <<>>
    /\ shown_invalid = <<>>
    /\ cpc = "idle"
    /\ batch_errors = <<>>
    /\ gv_calls = 0
    /\ valid_files = <<>>
    /\ vectorstore = NoHandle
    /\ index_name = NoName
    /\ tasks = <<>>
    /\ completed = 0
    /\ yielded = <<>>
    /\ results = <<>>
    /\ displayed = NoDisplay
    /\ store = EmptyBag
    /\ registry = EmptyBag
    /\ faults = 0
    /\ batch = 1

InitFor(users) == InitSession(users, {UploadSession})

Init == InitFor(Usernames)

(* render, lines 47-59: the user drops files and picks the target; the     *)
(* script reruns and _display_file_list validates the list.                *)
Render(kinds, maxLen) ==
    /\ cpc = "idle"
    /\ \E n \in 1..maxLen : \E files \in [1..n -> kinds] :
         /\ uploaded_files' = files
         /\ shown_valid' = DisplayValid(files)
         /\ shown_invalid' = DisplayInvalid(files)
    /\ target_index' \in Targets
    /\ cpc' = "listed"
    /\ UNCHANGED <<username, session, batch_errors, gv_calls, valid_files, vectorstore,
                   index_name, tasks, completed, yielded, results, displayed,
                   store, registry, faults, batch, progress_bar>>

(* variant: the handle is not checked *)
StoreAvailableAlways(vs) == TRUE

(* line 106: "if not vectorstore" *)
StoreAvailable(vs) == vs # NoHandle

(* variant: the empty batch is not stopped *)
NoValidFilesNever(valid) == FALSE

(* line 94: "if not valid_files" *)
NoValidFiles(valid) == valid = <<>>

(* _process_files up to the submission of the tasks, lines 88-111 and      *)
(* 193-206.  get_vectorstore returns a handle or None.                     *)
ProcessFiles ==
    /\ cpc = "listed"
    /\ LET valid == SizeFilter(uploaded_files, 1) IN
       IF NoValidFiles(valid)
       THEN /\ batch_errors' = Append(batch_errors, "no files")
            /\ cpc' = "aborted"
            /\ UNCHANGED <<gv_calls, valid_files, vectorstore, index_name,
                           tasks, completed, results, yielded, progress_bar>>
       ELSE /\ gv_calls' = gv_calls + 1
            /\ valid_files' = valid
            /\ \E vs \in {NoHandle, ResolveVectorstore(target_index, username)} :
                 /\ vectorstore' = vs
                 /\ index_name' = ResolveIndexName(target_index, username)
                 /\ IF ~StoreAvailable(vs)
                    THEN /\ batch_errors' = Append(batch_errors, "no vectorstore")
                         /\ cpc' = "aborted"
                         /\ UNCHANGED <<tasks, completed, results, yielded,
                                        progress_bar>>
                    ELSE /\ tasks' = [i \in 1..Len(valid) |-> NewTask]
                         /\ completed' = 0
                         /\ results' = <<>>
                         /\ yielded' = <<>>
                         /\ progress_bar' = Progress(0, 1)
                         /\ cpc' = "collecting"
                         /\ UNCHANGED batch_errors
    /\ UNCHANGED <<username, session, uiVars, displayed, store, registry, faults, batch>>

(* ---- process_single_file, run by a worker thread of the pool ---- *)

(* variant: the first failure cancels the work items still queued *)
FailFast(i, label, tmp, bound) ==
    tasks' = [j \in DOMAIN tasks |->
                IF j = i
                THEN [tasks[j] EXCEPT !.pc = "except", !.exc = label,
                                      !.tmp = tmp, !.bound = bound]
                ELSE IF tasks[j].pc = "queued"
                     THEN [tasks[j] EXCEPT !.pc = "done",
                                           !.raised = "CancelledError"]
                     ELSE tasks[j]]

(* the jump into the except clause of line 175 with the exception label *)
Fail(i, label, tmp, bound) ==
    tasks' = [tasks EXCEPT ![i].pc = "except", ![i].exc = label,
                           ![i].tmp = tmp, ![i].bound = bound]

(* A worker takes the oldest queued work item and runs lines 116-145 (all  *)
(* of it local to the task, hence one step): the                           *)
(* temporary file is created and written, the PDF is loaded and split and  *)
(* the fragments are annotated.  tmp_file_path is bound only after the     *)
(* write succeeded.                                                        *)
ParseFile(i) ==
    /\ NextQueued(i)
    /\ WorkerAvailable
    /\ \/ /\ ValidContent(FileOf(i))
          /\ tasks' = [tasks EXCEPT ![i].pc = "add", ![i].tmp = "exists",
                                    ![i].bound = TRUE,
                                    ![i].splits = NumSplits(FileOf(i).content)]
          /\ UNCHANGED faults
       \/ /\ ~ValidContent(FileOf(i))
          /\ Fail(i, "ExtractionError", "exists", TRUE)
          /\ UNCHANGED faults
       \/ /\ faults < MaxFaults
          /\ faults' = faults + 1
          /\ \/ Fail(i, "TempFileError", "none", FALSE)
             \/ Fail(i, "WriteError", "exists", FALSE)
             \/ /\ ValidContent(FileOf(i))
                /\ Fail(i, "SplitError", "exists", TRUE)
    /\ UNCHANGED <<username, session, uiVars, coordVars, store, registry, batch>>

Fragment(i, k) ==
    [store |-> vectorstore,
     text |-> <<FileOf(i).content, k>>,
     filename |-> FileOf(i).name,
     upload_user |-> username,
     file_size |-> FileOf(i).size,
     index_name |-> index_name]

(* variant: fragments the store already holds are skipped *)
FragmentsDedup(i, n) ==
    SetToBag({Fragment(i, k) : k \in 1..n} \ BagToSet(store))

(* documents=splits of line 148 *)
Fragments(i, n) == SetToBag({Fragment(i, k) : k \in 1..n})

(* variant: a failed write is tried again *)
AddDocumentsRetry(i) ==
    /\ i \in TaskIds
    /\ tasks[i].pc = "add"
    /\ \/ /\ store' = store (+) Fragments(i, tasks[i].splits)
          /\ tasks' = [tasks EXCEPT ![i].pc = "register",
                                    ![i].written = tasks[i].splits,
                                    ![i].add_calls = @ + 1]
          /\ UNCHANGED faults
       \/ /\ faults < MaxFaults
          /\ faults' = faults + 1
          /\ tasks' = [tasks EXCEPT ![i].add_calls = @ + 1]
          /\ UNCHANGED store
    /\ UNCHANGED <<username, session, uiVars, coordVars, registry, batch>>

(* line 148; a failing write may have stored a prefix of the fragments *)
AddDocuments(i) ==
    /\ i \in TaskIds
    /\ tasks[i].pc = "add"
    /\ \/ /\ store' = store (+) Fragments(i, tasks[i].splits)
          /\ tasks' = [tasks EXCEPT ![i].pc = "register",
                                    ![i].written = tasks[i].splits,
                                    ![i].add_calls = @ + 1]
          /\ UNCHANGED faults
       \/ /\ faults < MaxFaults
          /\ faults' = faults + 1
          /\ \E k \in 0..(tasks[i].splits - 1) :
               /\ store' = store (+) Fragments(i, k)
               /\ tasks' = [tasks EXCEPT ![i].pc = "except",
                                         ![i].exc = "StoreWriteError",
                                         ![i].written = k,
                                         ![i].add_calls = @ + 1]
    /\ UNCHANGED <<username, session, uiVars, coordVars, registry, batch>>

DocMetadata(i) ==
    [filename |-> FileOf(i).name,
     upload_user |-> username,
     file_size |-> FileOf(i).size,
     chunk_count |-> tasks[i].splits,
     index_name |-> index_name,
     status |-> "success"]

SuccessResult(i) ==
    [file |-> FileOf(i).name, status |-> "success", error |-> Absent,
     chunks |-> tasks[i].splits, processing_time |-> "elapsed"]

(* variant: the error result reports the fragments split so far *)
ErrorResultKeepChunks(i) ==
    [file |-> FileOf(i).name, status |-> "error", error |-> tasks[i].exc,
     chunks |-> tasks[i].splits, processing_time |-> "elapsed"]

ErrorResult(i) ==
    [file |-> FileOf(i).name, status |-> "error", error |-> tasks[i].exc,
     chunks |-> 0, processing_time |-> "elapsed"]

(* doc_manager.add_document(doc_metadata): one record appended, or an      *)
(* exception and nothing appended                                          *)
RegistryAppend(reg, rec) == reg (+) SetToBag({rec})

Done(i, result, raised, tmp) ==
    tasks' = [tasks EXCEPT ![i].pc = "done", ![i].result = result,
                           ![i].raised = raised, ![i].tmp = tmp,
                           ![i].bound = FALSE, ![i].splits = 0,
                           ![i].exc = None]

(* variant: a failed registry append takes the fragments out of the store *)
RegisterDocumentRollback(i) ==
    /\ i \in TaskIds
    /\ tasks[i].pc = "register"
    /\ \/ /\ registry' = RegistryAppend(registry, DocMetadata(i))
          /\ tasks' = [tasks EXCEPT ![i].pc = "done",
                                    ![i].result = SuccessResult(i),
                                    ![i].appended = @ + 1,
                                    ![i].tmp = "deleted",
                                    ![i].bound = FALSE, ![i].splits = 0]
          /\ UNCHANGED <<faults, store>>
       \/ /\ faults < MaxFaults
          /\ faults' = faults + 1
          /\ Fail(i, "RegistryError", "deleted", tasks[i].bound)
          /\ store' = store (-) Fragments(i, tasks[i].splits)
          /\ UNCHANGED registry
    /\ UNCHANGED <<username, session, uiVars, coordVars, batch>>

(* lines 150-173: the temporary file is unlinked, the record is appended   *)
(* and the success result is returned                                      *)
RegisterDocument(i) ==
    /\ i \in TaskIds
    /\ tasks[i].pc = "register"
    /\ \/ /\ registry' = RegistryAppend(registry, DocMetadata(i))
          /\ tasks' = [tasks EXCEPT ![i].pc = "done",
                                    ![i].result = SuccessResult(i),
                                    ![i].appended = @ + 1,
                                    ![i].tmp = "deleted",
                                    ![i].bound = FALSE, ![i].splits = 0]
          /\ UNCHANGED faults
       \/ /\ faults < MaxFaults
          /\ faults' = faults + 1
          /\ Fail(i, "RegistryError", "deleted", tasks[i].bound)
          /\ UNCHANGED registry
    /\ UNCHANGED <<username, session, uiVars, coordVars, store, batch>>

(* os.unlink(tmp_file_path) guarded by 'tmp_file_path' in locals(); an     *)
(* unlink of a file that is already gone raises and is swallowed           *)
HandlerUnlink(t) ==
    IF t.bound /\ t.tmp = "exists" THEN "deleted" ELSE t.tmp

ErrorMetadata(i) ==
    [filename |-> FileOf(i).name,
     upload_user |-> username,
     file_size |-> FileOf(i).size,
     chunk_count |-> 0,
     index_name |-> index_name,
     status |-> "error"]

(* variant: the handler records the failed document too *)
HandleExceptionRecording(i) ==
    /\ i \in TaskIds
    /\ tasks[i].pc = "except"
    /\ registry' = registry (+) SetToBag({ErrorMetadata(i)})
    /\ tasks' = [tasks EXCEPT ![i].pc = "done", ![i].result = ErrorResult(i),
                              ![i].tmp = HandlerUnlink(tasks[i]),
                              ![i].appended = @ + 1,
                              ![i].bound = FALSE, ![i].splits = 0,
                              ![i].exc = None]
    /\ UNCHANGED <<username, session, uiVars, coordVars, store, faults, batch>>

(* lines 175-190; a fault inside the handler itself leaves the future with *)
(* an exception instead of a result                                        *)
HandleException(i) ==
    /\ i \in TaskIds
    /\ tasks[i].pc = "except"
    /\ \/ /\ Done(i, ErrorResult(i), None, HandlerUnlink(tasks[i]))
          /\ UNCHANGED faults
       \/ /\ faults < MaxFaults
          /\ faults' = faults + 1
          /\ Done(i, NoResult, "HandlerFault", HandlerUnlink(tasks[i]))
    /\ UNCHANGED <<username, session, uiVars, coordVars, store, registry, batch>>

(* ---- the as_completed loop, lines 212-231 ---- *)

SynthesizedResult(i) ==
    [file |-> FileOf(i).name, status |-> "error", error |-> tasks[i].raised,
     chunks |-> 0, processing_time |-> Absent]

(* variant: the result of a future that raised is lost *)
AppendResultNoCatch(rs, i) ==
    IF tasks[i].raised = None THEN Append(rs, tasks[i].result) ELSE rs

(* lines 221-231: future.result() returns the task's result or raises *)
AppendResult(rs, i) ==
    IF tasks[i].raised = None
    THEN Append(rs, tasks[i].result)
    ELSE Append(rs, SynthesizedResult(i))

(* variant: progress over all uploaded files *)
TotalFilesUploaded == Len(uploaded_files)

(* line 210: total_files = len(uploaded_files), the list of valid files *)
TotalFiles == Len(valid_files)

(* one iteration of the loop *)
CollectResult(i) ==
    /\ cpc = "collecting"
    /\ Completed(i)
    /\ yielded' = Append(yielded, i)
    /\ completed' = completed + 1
    /\ progress_bar' = Progress(completed + 1, TotalFiles)
    /\ results' = AppendResult(results, i)
    /\ UNCHANGED <<username, session, uiVars, cpc, batch_errors, gv_calls, valid_files,
                   vectorstore, index_name, displayed, tasks, store, registry,
                   faults, batch>>

RECURSIVE SumChunksCount(_)
(* variant: the results are counted instead of their chunks *)
SumChunksCount(rs) ==
    IF rs = <<>> THEN 0 ELSE 1 + SumChunksCount(Tail(rs))

RECURSIVE SumChunks(_)
SumChunks(rs) == IF rs = <<>> THEN 0 ELSE Head(rs).chunks + SumChunks(Tail(rs))

IsSuccess(r) == r.status = "success"
IsError(r) == r.status = "error"

(* _display_results, lines 239-259 *)
DisplayResults(rs) ==
    LET successful_files == SelectSeq(rs, IsSuccess)
        failed_files == SelectSeq(rs, IsError)
    IN [successful |-> Len(successful_files),
        total_chunks |-> SumChunks(successful_files),
        failed |-> Len(failed_files)]

(* the loop ends when every future was yielded; lines 233-237 and 112 *)
ReturnResults ==
    /\ cpc = "collecting"
    /\ Range(yielded) = TaskIds
    /\ Len(results) = Len(yielded)
    /\ displayed' = DisplayResults(results)
    /\ progress_bar' = NoProgress
    /\ cpc' = "displayed"
    /\ UNCHANGED <<username, session, uiVars, batch_errors, gv_calls, valid_files,
                   vectorstore, index_name, completed, yielded, results,
                   tasks, store, registry, faults, batch>>

(* The loop iteration in its two halves: lines 212-219 take the next       *)
(* finished future, count it and show the progress; lines 221-231 then     *)
(* fetch its result.                                                       *)
NextCompleted(i) ==
    /\ cpc = "collecting"
    /\ Len(yielded) = Len(results)
    /\ Completed(i)
    /\ yielded' = Append(yielded, i)
    /\ completed' = completed + 1
    /\ progress_bar' = Progress(completed + 1, TotalFiles)
    /\ UNCHANGED <<username, session, uiVars, cpc, batch_errors, gv_calls,
                   valid_files, vectorstore, index_name, results, displayed,
                   tasks, store, registry, faults, batch>>

GetResult ==
    /\ cpc = "collecting"
    /\ Len(yielded) = Len(results) + 1
    /\ results' = AppendResult(results, yielded[Len(yielded)])
    /\ UNCHANGED <<username, session, uiVars, cpc, batch_errors, gv_calls,
                   valid_files, vectorstore, index_name, completed, yielded,
                   displayed, progress_bar, tasks, store, registry, faults,
                   batch>>

(* The script finished; the next interaction reruns it with a fresh page.  *)
(* The vector stores and the registry outlive the run; the futures of the  *)
(* finished run, and with them the record of its temporary files, do not.  *)
Rerun ==
    /\ cpc \in {"displayed", "aborted"}
    /\ batch < MaxBatches
    /\ batch' = batch + 1
    /\ cpc' = "idle"
    /\ uploaded_files' = <<>>
    /\ target_index' = TargetPersonal
    /\ shown_valid' = <<>>
    /\ shown_invalid' = <<>>
    /\ batch_errors' = <<>>
    /\ gv_calls' = 0
    /\ valid_files' = <<>>
    /\ vectorstore' = NoHandle
    /\ index_name' = NoName
    /\ tasks' = <<>>
    /\ completed' = 0
    /\ yielded' = <<>>
    /\ results' = <<>>
    /\ displayed' = NoDisplay
    /\ progress_bar' = NoProgress
    /\ UNCHANGED <<username, session, store, registry, faults>>

Work ==
    \/ ProcessFiles
    \/ \E i \in 1..(MaxFiles + 1) : ParseFile(i)
    \/ \E i \in 1..(MaxFiles + 1) : AddDocuments(i)
    \/ \E i \in 1..(MaxFiles + 1) : RegisterDocument(i)
    \/ \E i \in 1..(MaxFiles + 1) : HandleException(i)
    \/ \E i \in 1..(MaxFiles + 1) : CollectResult(i)
    \/ ReturnResults

(* one script run with up to MaxFiles files *)
Next ==
    \/ Render(FileKinds, MaxFiles)
    \/ Work

Spec == Init /\ [][Next]_vars

(* MaxBatches script runs with up to MaxRepeatFiles files each *)
RepeatKinds ==
    {[name |-> "a.pdf", size |-> MAX_FILE_SIZE, content |-> "pdf2"],
     [name |-> "a.pdf", size |-> 1024, content |-> "pdf1"],
     [name |-> "b.pdf", size |-> 2048, content |-> "notpdf"]}

NextRepeat ==
    \/ Render(RepeatKinds, MaxRepeatFiles)
    \/ Work
    \/ Rerun

SpecRepeat == Init /\ [][NextRepeat]_vars

(* The pool's worker threads and the script thread are operating-system    *)
(* threads: a step that stays possible is eventually taken.                *)
Fairness ==
    /\ WF_vars(ProcessFiles)
    /\ WF_vars(ReturnResults)
    /\ \A i \in 1..(MaxFiles + 1) :
         /\ WF_vars(ParseFile(i))
         /\ WF_vars(AddDocuments(i))
         /\ WF_vars(RegisterDocument(i))
         /\ WF_vars(HandleException(i))
         /\ WF_vars(CollectResult(i))

LiveKinds ==
    {[name |-> "a.pdf", size |-> MAX_FILE_SIZE, content |-> "pdf2"],
     [name |-> "b.pdf", size |-> 2048, content |-> "notpdf"]}

NextLive ==
    \/ Render(LiveKinds, MaxFiles)
    \/ Work

LiveInit == InitFor({<<"alice">>})

LiveSpec == LiveInit /\ [][NextLive]_vars /\ Fairness

(* one script run with the loop iteration in two steps *)
LoopKinds ==
    {[name |-> "a.pdf", size |-> MAX_FILE_SIZE, content |-> "pdf2"],
     [name |-> "a.pdf", size |-> MAX_FILE_SIZE + 1, content |-> "pdf1"]}

NextLoop ==
    \/ Render(LoopKinds, MaxFiles)
    \/ ProcessFiles
    \/ \E i \in 1..(MaxFiles + 1) : ParseFile(i)
    \/ \E i \in 1..(MaxFiles + 1) : AddDocuments(i)
    \/ \E i \in 1..(MaxFiles + 1) : RegisterDocument(i)
    \/ \E i \in 1..(MaxFiles + 1) : HandleException(i)
    \/ \E i \in 1..(MaxFiles + 1) : NextCompleted(i)
    \/ GetResult
    \/ ReturnResults

SpecLoop == LiveInit /\ [][NextLoop]_vars

(***************************************************************************)
(* The sidebar, src/utils/navigation.py, and the index line of the upload *)
(* page.  "Личный" is written Personal and "Общий" Shared.           *)
(***************************************************************************)
MaxReruns == 3

IndexTypes == {"Personal", "Shared"}

Pages == {"home", "chat", "upload", "documents", "index_management"}

(* user names whose "-name" suffix also ends the shared index name *)
NavUsernames == Usernames \cup {<<"shared">>, <<"qa", "-", "shared">>}

(* str.endswith on strings cut at their hyphens *)
EndsWith(str, suffix) ==
    /\ Len(suffix) <= Len(str)
    /\ SubSeq(str, Len(str) - Len(suffix) + 1, Len(str)) = suffix

(* navigation.py line 44; the unset current_index is falsy *)
SidebarIndexType(current_index, user) ==
    IF current_index # <<>> /\ EndsWith(current_index, <<"-">> \o user)
    THEN "Personal" ELSE "Shared"

(* upload.py lines 24-25 *)
UploadIndexType(current_index, user) ==
    LET current_index_name ==
            IF current_index # <<>> THEN current_index
            ELSE PersonalIndexName(user)
    IN IF EndsWith(current_index_name, <<"-">> \o user)
       THEN "Personal" ELSE "Shared"

(* upload.py line 37: the preselected radio option *)
Preselect(index_type) ==
    IF index_type = "Personal" THEN TargetPersonal ELSE TargetShared

(* navigation.py lines 55-58 *)
SwitchIndex(new_index_type, user) ==
    IF new_index_type = "Personal" THEN PersonalIndexName(user)
    ELSE SharedIndexName

(* get_current_page, lines 68-72 *)
GetCurrentPage(page) == IF page = "unset" THEN "home" ELSE page

(* st.selectbox(..., index=..., key="index_selector"), lines 46-51: a      *)
(* widget not yet in the session shows its default; one that is keeps its  *)
(* value, or is rebuilt with the default when the default has changed.     *)
SelectboxValues(sess, default) ==
    IF sess.index_selector = "unset" THEN {default}
    ELSE IF sess.selector_default # default
         THEN {sess.index_selector, default}
         ELSE {sess.index_selector}

(* a fresh session: the first script run is due *)
NavSessions(user) ==
    {[UploadSession EXCEPT !.current_index = ci, !.current_page = "unset",
                           !.pending = TRUE] :
        ci \in {<<>>, PersonalIndexName(user), SharedIndexName}}

NavInit ==
    \E user \in NavUsernames : InitSession({user}, NavSessions(user))

navRest ==
    <<username, uiVars, coordVars, tasks, store, registry, faults, batch>>

(* the user picks an option of the index selectbox; the script reruns *)
SelectIndexType(t) ==
    /\ ~session.pending
    /\ t \in IndexTypes
    /\ t # session.index_selector
    /\ session' = [session EXCEPT !.index_selector = t, !.pending = TRUE,
                                  !.reruns = 0]
    /\ UNCHANGED navRest

(* a page button, lines 15-37 *)
ClickPage(p) ==
    /\ ~session.pending
    /\ p \in Pages
    /\ session' = [session EXCEPT !.current_page = p, !.pending = TRUE,
                                  !.reruns = 0]
    /\ UNCHANGED navRest

(* one script run: setup_navigation lines 41-59, then, if it did not       *)
(* rerun, the page; the upload page shows its index type, upload.py 24-39  *)
SetupNavigation ==
    /\ session.pending
    /\ LET current_index_type ==
                SidebarIndexType(session.current_index, username)
       IN \E new_index_type \in SelectboxValues(session, current_index_type) :
            IF new_index_type # current_index_type
            THEN /\ session.reruns < MaxReruns
                 /\ session' =
                      [session EXCEPT
                         !.current_index = SwitchIndex(new_index_type, username),
                         !.index_selector = new_index_type,
                         !.selector_default = current_index_type,
                         !.shown_sidebar = current_index_type,
                         !.reruns = @ + 1]
            ELSE session' =
                      [session EXCEPT
                         !.index_selector = new_index_type,
                         !.selector_default = current_index_type,
                         !.shown_sidebar = current_index_type,
                         !.current_page = GetCurrentPage(@),
                         !.shown_upload =
                             IF GetCurrentPage(session.current_page) = "upload"
                             THEN UploadIndexType(session.current_index, username)
                             ELSE "none",
                         !.preselected =
                             IF GetCurrentPage(session.current_page) = "upload"
                             THEN Preselect(UploadIndexType(session.current_index,
                                                            username))
                             ELSE "none",
                         !.pending = FALSE]
    /\ UNCHANGED navRest

NextNav ==
    \/ \E t \in IndexTypes : SelectIndexType(t)
    \/ \E p \in Pages : ClickPage(p)
    \/ SetupNavigation

SpecNav == NavInit /\ [][NextNav]_vars

(***************************************************************************)
(* Properties                                                              *)
(***************************************************************************)
Occurrences(seq, x) == Cardinality({k \in DOMAIN seq : seq[k] = x})
DoneTasks == {i \in TaskIds : tasks[i].pc = "done"}
Succeeded(i) ==
    tasks[i].pc = "done" /\ tasks[i].raised = None
        /\ tasks[i].result.status = "success"
EnvErrors == {"TempFileError", "WriteError", "SplitError", "StoreWriteError",
              "RegistryError", "HandlerFault"}

(* C1: the returned sequence holds exactly one result per submitted        *)
(* (non-oversized) file, none missing and none twice, whatever the         *)
(* completion order, also for files of the same name; a task that raised   *)
(* is represented by an error result carrying its filename.  While the     *)
(* loop runs no future is collected twice.                                 *)
C1_OneResultPerFile ==
    /\ Len(results) = Len(yielded)
    /\ \A i \in TaskIds : Occurrences(yielded, i) <= 1
    /\ \A k \in DOMAIN results :
         /\ yielded[k] \in TaskIds
         /\ results[k].file = uploaded_files[valid_files[yielded[k]]].name
         /\ tasks[yielded[k]].raised # None =>
              /\ results[k].status = "error"
              /\ results[k].error = tasks[yielded[k]].raised
    /\ cpc = "displayed" =>
         /\ Len(results) = Cardinality({p \in DOMAIN uploaded_files :
                                          uploaded_files[p].size <= MAX_FILE_SIZE})
         /\ \A i \in 1..Len(valid_files) : Occurrences(yielded, i) = 1
         /\ \A p \in DOMAIN uploaded_files :
              uploaded_files[p].size <= MAX_FILE_SIZE =>
                  Occurrences(valid_files, p) = 1

C1_Witness ==
    /\ cpc = "displayed"
    /\ Len(results) = 3
    /\ \E j, k \in DOMAIN yielded :
         /\ j < k
         /\ yielded[j] > yielded[k]
         /\ results[j].file = results[k].file
         /\ tasks[yielded[k]].raised = "HandlerFault"

(* C2: at every instant at most 3 tasks are between start and return; a    *)
(* task that is still queued has not run any step.                         *)
C2_AtMostThreeRunning ==
    /\ Cardinality(Running) <= 3
    /\ \A i \in TaskIds : tasks[i].pc = "queued" => tasks[i] = NewTask

C2_Witness ==
    /\ Cardinality(Running) = 3
    /\ Queued # {}
    /\ Len(valid_files) = MaxFiles

(* C3: when a task has returned, the temporary file it created no longer   *)
(* exists, on every exit path.                                             *)
C3_TempFileReleased ==
    \A i \in TaskIds : tasks[i].pc = "done" => tasks[i].tmp # "exists"

(* C4: a file is submitted to a task iff its size is at most 52428800      *)
(* bytes; a larger file gets no task and no result and is listed as        *)
(* invalid by the file-list validation, which agrees with the processing   *)
(* filter on every file.                                                   *)
C4_SizeLimit ==
    /\ cpc # "idle" =>
         /\ shown_valid = SizeFilter(uploaded_files, 1)
         /\ \A p \in DOMAIN uploaded_files :
              /\ (p \in Range(shown_invalid)) = (uploaded_files[p].size > 52428800)
              /\ (p \in Range(shown_valid)) = (uploaded_files[p].size <= 52428800)
    /\ cpc \in {"collecting", "displayed"} =>
         /\ Len(tasks) = Len(valid_files)
         /\ \A p \in DOMAIN uploaded_files :
              (p \in Range(valid_files)) = (uploaded_files[p].size <= 52428800)
         /\ \A k \in DOMAIN yielded :
              uploaded_files[valid_files[yielded[k]]].size <= 52428800
         /\ Len(results) <= Len(uploaded_files) - Len(shown_invalid)

C4_Witness ==
    /\ cpc = "displayed"
    /\ \E p, q \in DOMAIN uploaded_files :
         /\ uploaded_files[p].size = 52428800
         /\ uploaded_files[q].size = 52428801
         /\ p \in Range(valid_files)
         /\ q \in Range(shown_invalid)
    /\ Len(results) = Len(uploaded_files) - 1

(* C5: when no vector-store handle is resolved the batch is aborted with   *)
(* one batch-level error: no task, no result, nothing displayed, nothing   *)
(* written to a store or to the registry.                                  *)
C5_NoStoreAborts ==
    (valid_files # <<>> /\ vectorstore = NoHandle) =>
        /\ cpc = "aborted"
        /\ batch_errors = <<"no vectorstore">>
        /\ tasks = <<>>
        /\ results = <<>>
        /\ displayed = NoDisplay
        /\ store = EmptyBag
        /\ registry = EmptyBag

C5_Witness ==
    /\ cpc = "aborted"
    /\ vectorstore = NoHandle
    /\ Len(valid_files) = MaxFiles

(* C6: a failure in one file's task becomes that file's error result and   *)
(* leaves the other files alone: a finished task whose outcome is not the  *)
(* one its own file determines (success with all its fragments for a PDF,  *)
(* an extraction error for other bytes) was hit by a fault itself, so at   *)
(* most as many tasks deviate as faults occurred; and the batch still      *)
(* returns a result for every file.                                        *)
Expected(i) ==
    IF ValidContent(FileOf(i))
    THEN [file |-> FileOf(i).name, status |-> "success", error |-> Absent,
          chunks |-> NumSplits(FileOf(i).content), processing_time |-> "elapsed"]
    ELSE [file |-> FileOf(i).name, status |-> "error",
          error |-> "ExtractionError", chunks |-> 0,
          processing_time |-> "elapsed"]

Deviating ==
    {i \in DoneTasks : tasks[i].raised # None \/ tasks[i].result # Expected(i)}

C6_FailuresIsolated ==
    /\ Cardinality(Deviating) <= faults
    /\ \A i \in Deviating :
         tasks[i].raised \in EnvErrors \/ tasks[i].result.error \in EnvErrors
    /\ \A i \in DoneTasks :
         tasks[i].raised = None => tasks[i].result.status \in {"success", "error"}
    /\ cpc = "displayed" =>
         /\ Len(results) = Len(valid_files)
         /\ \A k \in DOMAIN results :
              yielded[k] \notin Deviating => results[k] = Expected(yielded[k])

C6_Witness ==
    /\ cpc = "displayed"
    /\ Len(results) = MaxFiles
    /\ results[1].status = "error"
    /\ results[1].error = "StoreWriteError"
    /\ \E k \in DOMAIN results : results[k].status = "success"
    /\ \E k \in DOMAIN results : results[k].error = "ExtractionError"

C8_AllTasksComplete ==
    /\ [](cpc = "displayed" =>
            \A i \in TaskIds :
                /\ tasks[i].pc = "done"
                /\ \/ tasks[i].result.status \in {"success", "error"}
                   \/ tasks[i].raised # None)
    /\ (cpc = "collecting") ~> (cpc = "displayed")

C8_Witness ==
    /\ cpc = "displayed"
    /\ Len(tasks) = MaxFiles
    /\ MaxFiles > 3
    /\ \A i \in TaskIds : tasks[i].pc = "done"

(* C9: every fragment in a store carries the index name and sits in the    *)
(* handle resolved for the batch: for Personal the handle of (personal,    *)
(* user) and the name pdf-qa-personal-<user>, for Shared the handle of     *)
(* (shared) and the name pdf-qa-shared; the factory is asked once.         *)
C9_OneTargetPerBatch ==
    /\ gv_calls <= 1
    /\ \A fr \in BagToSet(store) :
         /\ fr.index_name = index_name
         /\ fr.store = vectorstore
         /\ target_index = TargetPersonal =>
              /\ fr.store = [scope |-> "personal", owner |-> username]
              /\ fr.index_name =
                     <<"pdf", "-", "qa", "-", "personal", "-">> \o username
         /\ target_index = TargetShared =>
              /\ fr.store = [scope |-> "shared", owner |-> <<>>]
              /\ fr.index_name = <<"pdf", "-", "qa", "-", "shared">>

C9_Witness ==
    /\ target_index = TargetShared
    /\ Cardinality({i \in TaskIds : tasks[i].written > 0}) >= 2
    /\ BagCardinality(store) >= 3

(* C10: ingestion does not deduplicate: every successful store write adds  *)
(* one more copy of each fragment of the file, and every successful        *)
(* registry append adds one more record, also when equal ones are already  *)
(* there from an earlier batch or from the same batch.                     *)
C10_NotIdempotent ==
    [][\A i \in TaskIds :
        /\ (tasks[i].pc = "add" /\ tasks'[i].pc = "register") =>
             \A k \in 1..tasks[i].splits :
                 CopiesIn(Fragment(i, k), store') =
                     CopiesIn(Fragment(i, k), store) + 1
        /\ (tasks[i].pc = "register" /\ tasks'[i].pc = "done") =>
             CopiesIn(DocMetadata(i), registry') =
                 CopiesIn(DocMetadata(i), registry) + 1]_vars

C10_Witness ==
    /\ batch = 2
    /\ cpc = "displayed"
    /\ Len(uploaded_files) = 1
    /\ Succeeded(1)
    /\ BagCardinality(registry) = 2
    /\ \A fr \in BagToSet(store) : CopiesIn(fr, store) = 2
    /\ BagCardinality(store) = 4

(* C11: get_vectorstore is called at most once per batch, exactly once in  *)
(* a batch with a valid file, and not at all when every file is oversized: *)
(* that batch is aborted with one error before resolution and before any   *)
(* task is submitted.                                                      *)
C11_ResolveAtMostOnce ==
    /\ gv_calls <= 1
    /\ (cpc \in {"aborted", "collecting", "displayed"}
          /\ \A p \in DOMAIN uploaded_files :
                 uploaded_files[p].size > MAX_FILE_SIZE) =>
         /\ gv_calls = 0
         /\ cpc = "aborted"
         /\ batch_errors = <<"no files">>
         /\ vectorstore = NoHandle
         /\ tasks = <<>>
         /\ results = <<>>
    /\ (cpc \in {"aborted", "collecting", "displayed"}
          /\ \E p \in DOMAIN uploaded_files :
                 uploaded_files[p].size <= MAX_FILE_SIZE) =>
         gv_calls = 1

C11_Witness ==
    /\ cpc = "aborted"
    /\ batch_errors = <<"no files">>
    /\ Len(uploaded_files) = 2
    /\ gv_calls = 0

(* C13: every collected result, a task's own or a synthesized one, has     *)
(* status success or error, 0 chunks when it is an error, and an error     *)
(* message iff it is an error.                                             *)
C13_ResultShape ==
    \A k \in DOMAIN results :
        /\ results[k].status \in {"success", "error"}
        /\ results[k].status = "error" => results[k].chunks = 0
        /\ (results[k].error # Absent) = (results[k].status = "error")

C13_Witness ==
    /\ cpc = "displayed"
    /\ \E k \in DOMAIN results : results[k].status = "success"
    /\ \E k \in DOMAIN results : results[k].error = "ExtractionError"
    /\ \E k \in DOMAIN results : results[k].error = "StoreWriteError"

(* C14: every collected result, a synthesized one included, carries a      *)
(* processing_time.                                                        *)
C14_ProcessingTimePresent ==
    \A k \in DOMAIN results : results[k].processing_time # Absent

(* C15: add_documents is called at most once per file and, when it         *)
(* succeeds, with all fragments of the file; when it fails it is not       *)
(* called again, no record is appended for the file, and the result is an  *)
(* error, with the store's error message when the task returned it.        *)
AddFailed(i) ==
    /\ tasks[i].add_calls > 0
    /\ tasks[i].written < NumSplits(FileOf(i).content)

C15_SingleWriteAttempt ==
    \A i \in TaskIds :
        /\ tasks[i].add_calls <= 1
        /\ tasks[i].pc \in {"queued", "add"} => tasks[i].add_calls = 0
        /\ tasks[i].pc = "register" =>
             /\ tasks[i].add_calls = 1
             /\ tasks[i].written = NumSplits(FileOf(i).content)
        /\ AddFailed(i) =>
             /\ tasks[i].pc \in {"except", "done"}
             /\ tasks[i].appended = 0
             /\ tasks[i].pc = "except" => tasks[i].exc = "StoreWriteError"
             /\ tasks[i].pc = "done" =>
                  /\ ~Succeeded(i)
                  /\ tasks[i].raised = None =>
                       /\ tasks[i].result.status = "error"
                       /\ tasks[i].result.error = "StoreWriteError"

C15_Witness ==
    /\ cpc = "displayed"
    /\ \E i \in TaskIds :
         /\ AddFailed(i)
         /\ tasks[i].written = 1
         /\ tasks[i].result.error = "StoreWriteError"
    /\ \E i \in TaskIds : Succeeded(i)

(* C16: a store write is never taken back: no fragment ever leaves a       *)
(* store, so the fragments of a file whose write succeeded stay, also when *)
(* the registry append that follows fails and the result is an error.      *)
C16_NoRollback ==
    /\ [][\A fr \in BagToSet(store) :
            CopiesIn(fr, store') >= CopiesIn(fr, store)]_vars
    /\ [](\A i \in TaskIds :
            (tasks[i].pc = "done" /\ tasks[i].result.error = "RegistryError") =>
                /\ tasks[i].result.status = "error"
                /\ tasks[i].written = NumSplits(FileOf(i).content)
                /\ \A k \in 1..tasks[i].written :
                       CopiesIn(Fragment(i, k), store) >= 1)

C16_Witness ==
    /\ cpc = "displayed"
    /\ Len(results) = 1
    /\ results[1].error = "RegistryError"
    /\ BagCardinality(store) = 2
    /\ registry = EmptyBag

(* C17: a success result reports as chunks the number of fragments the     *)
(* task wrote to the store, which is the chunk_count of a record in the    *)
(* registry; the displayed total is the sum of the chunks of the success   *)
(* results.                                                                *)
SuccessChunks ==
    LET S == {k \in DOMAIN results : results[k].status = "success"}
        f[T \in SUBSET S] ==
            IF T = {} THEN 0
            ELSE LET k == CHOOSE x \in T : TRUE
                 IN results[k].chunks + f[T \ {k}]
    IN f[S]

C17_ChunkCounts ==
    /\ \A i \in TaskIds :
         Succeeded(i) =>
             /\ tasks[i].result.chunks = tasks[i].written
             /\ tasks[i].result.chunks = NumSplits(FileOf(i).content)
             /\ \E rec \in BagToSet(registry) :
                  /\ rec.filename = FileOf(i).name
                  /\ rec.file_size = FileOf(i).size
                  /\ rec.chunk_count = tasks[i].result.chunks
    /\ cpc = "displayed" =>
         /\ displayed.total_chunks = SuccessChunks
         /\ displayed.successful =
              Cardinality({k \in DOMAIN results : results[k].status = "success"})
         /\ displayed.successful + displayed.failed = Len(results)

C17_Witness ==
    /\ cpc = "displayed"
    /\ displayed.successful = 2
    /\ displayed.failed = 1
    /\ displayed.total_chunks = 4

(* C12: in a batch the completed counter starts at 0 and moves only by +1, *)
(* once for each future the loop takes; each such step shows the progress  *)
(* completed/total with total the number of valid files, so the values     *)
(* are 1/total, 2/total, ... and the last one before the return is         *)
(* total/total; the results are never more than completed and at most one  *)
(* behind; and no task step waits for the loop.                            *)
C12_Progress ==
    /\ [][\/ completed' = completed
          \/ /\ completed' = completed + 1
             /\ \E i \in TaskIds : Completed(i) /\ yielded' = Append(yielded, i)
             /\ progress_bar' = [num |-> completed + 1,
                                 den |-> Cardinality({p \in DOMAIN uploaded_files :
                                     uploaded_files[p].size <= MAX_FILE_SIZE})]]_vars
    /\ [][(cpc = "collecting" /\ cpc' = "displayed") =>
              /\ progress_bar.num = progress_bar.den
              /\ progress_bar.num = Len(valid_files)]_vars
    /\ [](cpc = "collecting" =>
              /\ completed = Len(yielded)
              /\ yielded = <<>> => completed = 0
              /\ Len(results) <= completed
              /\ completed <= Len(results) + 1
              /\ progress_bar.num <= progress_bar.den
              /\ completed > 0 => progress_bar.num = completed
              /\ \A i \in TaskIds :
                   /\ (NextQueued(i) /\ WorkerAvailable) => ENABLED ParseFile(i)
                   /\ tasks[i].pc = "add" => ENABLED AddDocuments(i)
                   /\ tasks[i].pc = "register" => ENABLED RegisterDocument(i)
                   /\ tasks[i].pc = "except" => ENABLED HandleException(i))

C12_Witness ==
    /\ cpc = "collecting"
    /\ completed = 2
    /\ Len(results) = 1
    /\ Len(valid_files) = 3
    /\ Len(uploaded_files) = 4
    /\ progress_bar = [num |-> 2, den |-> 3]
    /\ Running # {}

(* C18: after setup_navigation has switched the index for a selection, the *)
(* type derived from the new current_index is the selection, so one        *)
(* selection gives one switch and one rerun, for every user name.          *)
C18_OneSwitchPerSelection ==
    /\ session.reruns <= 1
    /\ session.reruns = 1 =>
           SidebarIndexType(session.current_index, username)
               = session.index_selector

(* C19: whenever the upload page has been drawn, the index type shown in   *)
(* the sidebar, the index type shown by the upload page and the            *)
(* preselected upload target are the same type, the unset current_index    *)
(* included.                                                               *)
C19_SameIndexType ==
    session.shown_upload # "none" =>
        /\ session.shown_sidebar = session.shown_upload
        /\ session.preselected = Preselect(session.shown_sidebar)

====
